---- MODULE Spec2Model ----
(***************************************************************************)
(* Learning journal (Flask + peewee): the tables of models.py, the forms   *)
(* of forms.py and the request handlers of learning_journal.py.            *)
(*                                                                         *)
(* Tables are sequences of rows in insertion order; a row's id is its      *)
(* position (AutoIncrement primary key, no row is ever deleted).           *)
(* Every handler is one atomic step, except register, whose form           *)
(* validation (email_exists) and insert (create_user) are two steps so     *)
(* that two clients' registrations can interleave.                         *)
(***************************************************************************)
EXTENDS Integers, Sequences, FiniteSets, TLC

VARIABLES
    users,      \* table User: rows [id, email, password]
    entries,    \* table JournalEntry
    tags,       \* table Tag: rows [id, tag]
    through,    \* table JournalEntryTag: rows [journalentry, tag]
    session,    \* per client: the user id flask_login keeps, or AnonymousUser
    pending,    \* per client: a RegisterForm that validated and awaits create_user
    db,         \* per client: the database connection of the worker serving it
    last        \* the outcome of the most recent operation

vars == <<users, entries, tags, through, session, pending, db, last>>

----------------------------------------------------------------------------
(* Bounds of the model *)

MaxEntries == 2
MaxLinks == 2
\* rows of the JournalEntry table where the limits of the queries are examined
MaxRows == 101

----------------------------------------------------------------------------
(* Values *)

Clients == {"c1", "c2"}

\* Python None in a text slot, in a date slot, in a user slot
None == "<None>"
NoDate == <<>>
NoUser == -1

\* flask_login's AnonymousUserMixin: the current_user of a client not logged in
AnonymousUser == 0

NoForm == [email |-> None, password |-> None]

Emails == {"a@example.com", "b@example.com", "nomail"}
Passwords == {"password", "pass", ""}
Salts == {"s1"}

\* len(str) for the strings the model submits
StrLen(s) ==
    CASE s = "password" -> 8
      [] s = "pass" -> 4
      [] s = "" -> 0
      [] OTHER -> 16

----------------------------------------------------------------------------
(* forms.py validators *)

\* wtforms DataRequired: the field's data is truthy (and not blank)
DataRequired(data) == data # None /\ data # ""

\* wtforms Email: the field's data looks like an address
Email(data) == data \in {"a@example.com", "b@example.com"}

\* wtforms Length(min=8)
PasswordMinLength == 8
Length(data) == StrLen(data) >= PasswordMinLength

\* wtforms EqualTo('password2')
EqualTo(data, other) == data = other

\* forms.email_exists: raises ValidationError when a User row has the address;
\* TRUE here means the validator passes
email_exists(email) == ~ \E i \in 1..Len(users) : users[i].email = email

RegisterForm_validate(email, password, password2) ==
    /\ DataRequired(email) /\ Email(email) /\ email_exists(email)
    /\ DataRequired(password) /\ Length(password) /\ EqualTo(password, password2)
    /\ DataRequired(password2)

LoginForm_validate(email, password) ==
    /\ DataRequired(email) /\ Email(email)
    /\ DataRequired(password)

----------------------------------------------------------------------------
(* flask_bcrypt *)

\* a salted one-way hash: the stored value is never the plaintext
generate_password_hash(password, salt) ==
    [salt |-> salt, digest |-> <<"bcrypt", salt, password>>]

\* a check that accepts every password
check_password_hash_any(pw_hash, password) == TRUE

check_password_hash(pw_hash, password) ==
    pw_hash.digest = <<"bcrypt", pw_hash.salt, password>>

----------------------------------------------------------------------------
(* models.User *)

\* the UNIQUE index of User.email, checked by the database at insert
UserEmailUnique(table, email) == ~ \E i \in 1..Len(table) : table[i].email = email

\* an insert with no UNIQUE index on email
create_user_no_unique(table, email, password, salt) ==
    [ok |-> TRUE, error |-> "",
     table |-> Append(table, [id |-> Len(table) + 1, email |-> email,
                              password |-> generate_password_hash(password, salt)])]

\* User.create_user: the insert in one transaction; IntegrityError (the
\* UNIQUE index, or NOT NULL for an email of None) becomes
\* ValueError("User already exists") and the table is left as it was
create_user(table, email, password, salt) ==
    IF email # None /\ UserEmailUnique(table, email)
    THEN [ok |-> TRUE, error |-> "",
          table |-> Append(table, [id |-> Len(table) + 1, email |-> email,
                                   password |-> generate_password_hash(password, salt)])]
    ELSE [ok |-> FALSE, error |-> "ValueError", table |-> table]

\* User.get(User.email == email): the row's position, 0 for DoesNotExist
User_get_by_email(email) ==
    IF \E i \in 1..Len(users) : users[i].email = email
    THEN CHOOSE i \in 1..Len(users) : users[i].email = email
    ELSE 0

\* load_user: the User of the id in the session, AnonymousUser if there is none
load_user(user_id) ==
    IF user_id \in 1..Len(users) THEN user_id ELSE AnonymousUser

\* g.user = current_user of the requesting client
current_user(c) == load_user(session[c])

----------------------------------------------------------------------------
(* Responses *)

\* what the caller of an operation gets back: for a request the status, the
\* Location of a redirect and the ids of the entries the view selected; for a
\* direct call of the model layer its arguments (of JournalEntry.create the
\* field values) and "ok" or the exception
Response(op, c, status, location, outcome, selected) ==
    [op |-> op, client |-> c, status |-> status, location |-> location,
     outcome |-> outcome, entries |-> selected, arg |-> <<>>]

NoResponse == Response("", "", 0, "", "", <<>>)

----------------------------------------------------------------------------
(* learning_journal.before_request / after_request *)

\* before_request: g.db.get_conn() opens the worker's connection, or returns
\* the one that is open
before_request(conns, c) == [conns EXCEPT ![c] = "open"]

\* after_request: g.db.close()
after_request(conns, c) == [conns EXCEPT ![c] = "closed"]

\* a request that is answered by a response of the view, of login_required
\* or of an error handler: before_request, the handler, after_request
Served(c) == after_request(before_request(db, c), c)

\* a request whose view raises or returns no response: the exception
\* propagates (DEBUG, and TESTING in the tests, make Flask re-raise it) and
\* the after_request functions are not called
Raised(c) == before_request(db, c)

----------------------------------------------------------------------------
Init ==
    /\ users = <<>>
    /\ entries = <<>>
    /\ tags = <<>>
    /\ through = <<>>
    /\ session = [c \in Clients |-> AnonymousUser]
    /\ pending = [c \in Clients |-> NoForm]
    /\ db = [c \in Clients |-> "closed"]
    /\ last = NoResponse

----------------------------------------------------------------------------
(* learning_journal.register *)

\* lines 54-56 and 62: the form is built and validated; a GET or an invalid
\* POST renders register.html, a valid POST goes on to create_user
register(c, method, email, password, password2) ==
    /\ pending[c] = NoForm
    /\ IF method = "POST" /\ RegisterForm_validate(email, password, password2)
       THEN /\ pending' = [pending EXCEPT ![c] = [email |-> email, password |-> password]]
            /\ db' = before_request(db, c)
            /\ last' = Response("register", c, 0, "", "Validated", <<>>)
       ELSE /\ pending' = pending
            /\ db' = Served(c)
            /\ last' = Response("register", c, 200, "",
                                IF method = "POST" THEN "ValidationError" ELSE "Form", <<>>)
    /\ UNCHANGED <<users, entries, tags, through, session>>

\* lines 57-61: create_user, then the redirect to index; the ValueError of a
\* duplicate is not caught by the handler
register_create_user(c) ==
    /\ pending[c] # NoForm
    /\ \E salt \in Salts :
         LET r == create_user(users, pending[c].email, pending[c].password, salt) IN
         /\ users' = r.table
         /\ db' = IF r.ok THEN after_request(db, c) ELSE db
         /\ last' = IF r.ok THEN Response("register", c, 302, "/", "Registered", <<>>)
                    ELSE Response("register", c, 500, "", r.error, <<>>)
    /\ pending' = [pending EXCEPT ![c] = NoForm]
    /\ UNCHANGED <<entries, tags, through, session>>

----------------------------------------------------------------------------
(* learning_journal.login / logout *)

login(c, method, email, password) ==
    /\ pending[c] = NoForm
    /\ LET uid == User_get_by_email(email) IN
       IF method = "POST" /\ LoginForm_validate(email, password)
       THEN IF uid = 0
            THEN /\ session' = session
                 /\ last' = Response("login", c, 200, "", "DoesNotExist", <<>>)
            ELSE IF check_password_hash(users[uid].password, password)
                 THEN /\ session' = [session EXCEPT ![c] = users[uid].id]
                      /\ last' = Response("login", c, 302, "/", "LoggedIn", <<>>)
                 ELSE /\ session' = session
                      /\ last' = Response("login", c, 200, "", "PasswordMismatch", <<>>)
       ELSE /\ session' = session
            /\ last' = Response("login", c, 200, "",
                                IF method = "POST" THEN "ValidationError" ELSE "Form", <<>>)
    /\ db' = Served(c)
    /\ UNCHANGED <<users, entries, tags, through, pending>>

\* @login_required: an anonymous caller is sent to login_view
logout(c) ==
    /\ pending[c] = NoForm
    /\ IF current_user(c) = AnonymousUser
       THEN /\ session' = session
            /\ last' = Response("logout", c, 302, "/login", "Unauthorized", <<>>)
       ELSE /\ session' = [session EXCEPT ![c] = AnonymousUser]
            /\ last' = Response("logout", c, 302, "/", "LoggedOut", <<>>)
    /\ db' = Served(c)
    /\ UNCHANGED <<users, entries, tags, through, pending>>

----------------------------------------------------------------------------
(* forms.JournalEntryForm *)

\* strptime(raw, '%Y-%m-%d') of the date strings the model submits: a
\* datetime.date as <<year, month, day>>, NoDate when the text does not parse
ParseDate(raw) ==
    CASE raw = "2024-01-01" -> <<2024, 1, 1>>
      [] raw = "2024-01-02" -> <<2024, 1, 2>>
      [] OTHER -> NoDate

\* wtforms StringField / TextAreaField: a field absent from the request has data ''
StringField_data(raw) == IF raw = None THEN "" ELSE raw

\* wtforms DateField(format='%Y-%m-%d'): data is None when absent or malformed
DateField_data(raw) == IF raw = None THEN NoDate ELSE ParseDate(raw)

\* the form's data for a request
JournalEntryForm_data(req) ==
    [title |-> StringField_data(req.title),
     date |-> DateField_data(req.date),
     time_spent |-> StringField_data(req.time_spent),
     what_i_learned |-> StringField_data(req.what_i_learned),
     resources_to_remember |-> StringField_data(req.resources_to_remember)]

\* DataRequired on a DateField
DataRequiredDate(data) == data # NoDate

\* DataRequired on title, date, time_spent, what_i_learned; Optional on
\* resources_to_remember
JournalEntryForm_validate(req) ==
    LET data == JournalEntryForm_data(req) IN
    /\ DataRequired(data.title)
    /\ DataRequiredDate(data.date)
    /\ DataRequired(data.time_spent)
    /\ DataRequired(data.what_i_learned)

----------------------------------------------------------------------------
(* models.JournalEntry *)

\* columns that accept NULL
NotNull_off(user, data) == TRUE

\* the fields are declared without null=True: NOT NULL on every column
NotNull(user, data) ==
    /\ user # NoUser
    /\ data.title # None
    /\ data.date # NoDate
    /\ data.time_spent # None
    /\ data.what_i_learned # None
    /\ data.resources_to_remember # None

\* an insert that files every row under the first user
JournalEntry_create_first_user(table, user, data) ==
    IF user = AnonymousUser
    THEN [ok |-> FALSE, error |-> "TypeError", table |-> table]
    ELSE IF ~ NotNull(user, data)
    THEN [ok |-> FALSE, error |-> "IntegrityError", table |-> table]
    ELSE [ok |-> TRUE, error |-> "",
          table |-> Append(table,
              [id |-> Len(table) + 1, user |-> 1, title |-> data.title,
               date |-> data.date, time_spent |-> data.time_spent,
               what_i_learned |-> data.what_i_learned,
               resources_to_remember |-> data.resources_to_remember])]

\* an insert that takes the anonymous user's object for a key
JournalEntry_create_anonymous(table, user, data) ==
    IF ~ NotNull(user, data)
    THEN [ok |-> FALSE, error |-> "IntegrityError", table |-> table]
    ELSE [ok |-> TRUE, error |-> "",
          table |-> Append(table,
              [id |-> Len(table) + 1, user |-> user, title |-> data.title,
               date |-> data.date, time_spent |-> data.time_spent,
               what_i_learned |-> data.what_i_learned,
               resources_to_remember |-> data.resources_to_remember])]

\* JournalEntry.create(user=..., **data): the insert. A user that is no User
\* instance (the AnonymousUserMixin of a caller not logged in) has no integer
\* key: TypeError. A NULL in a NOT NULL column: IntegrityError.
JournalEntry_create(table, user, data) ==
    IF user = AnonymousUser
    THEN [ok |-> FALSE, error |-> "TypeError", table |-> table]
    ELSE IF ~ NotNull(user, data)
    THEN [ok |-> FALSE, error |-> "IntegrityError", table |-> table]
    ELSE [ok |-> TRUE, error |-> "",
          table |-> Append(table,
              [id |-> Len(table) + 1, user |-> user, title |-> data.title,
               date |-> data.date, time_spent |-> data.time_spent,
               what_i_learned |-> data.what_i_learned,
               resources_to_remember |-> data.resources_to_remember])]

\* a datetime.date as an ordinal, for comparison
DateKey(d) == d[1] * 10000 + d[2] * 100 + d[3]

\* the rows of one date, the row scanned last first
SameDate_reversed(rows, key) ==
    LET same == SelectSeq(rows, LAMBDA r : DateKey(r.date) = key)
    IN  [i \in 1..Len(same) |-> same[Len(same) + 1 - i]]

\* the rows of one date, in the order of the scan (rowid order)
SameDate(rows, key) == SelectSeq(rows, LAMBDA r : DateKey(r.date) = key)

\* ORDER BY date DESC: the rows of the latest date, then those of the next
\* latest, and so on
RECURSIVE ByDateDesc(_, _)
ByDateDesc(rows, keys) ==
    IF keys = {} THEN <<>>
    ELSE LET latest == CHOOSE k \in keys : \A x \in keys : k >= x
         IN  SameDate(rows, latest) \o ByDateDesc(rows, keys \ {latest})

\* JournalEntry.Meta.order_by = ('-date',)
order_by(rows) == ByDateDesc(rows, {DateKey(rows[i].date) : i \in 1..Len(rows)})

\* a query with no LIMIT clause
limit_off(rows, n) == rows

\* a query with no WHERE clause
where_user_all(rows, user) == rows

\* .where(g.user == JournalEntry.user)
where_user(rows, user) == SelectSeq(rows, LAMBDA r : r.user = user)

\* .limit(n)
limit(rows, n) == IF Len(rows) <= n THEN rows ELSE SubSeq(rows, 1, n)

\* JournalEntry.select().where(g.user == JournalEntry.user).limit(n)
select_entries(user, n) == limit(order_by(where_user(entries, user)), n)

\* the ids of the selected rows, in the order the query yields them
Ids(rows) == [i \in 1..Len(rows) |-> rows[i].id]

----------------------------------------------------------------------------
(* learning_journal.index / details / entry / list *)

IndexLimit == 5
ListLimit == 100

\* For an anonymous caller the query compares the user column with an object
\* that is no User: it matches no row, and running it raises; whether
\* index.html runs it is not decided by the view, so either answer may come.
index(c) ==
    /\ pending[c] = NoForm
    /\ \E status \in {200, 500} :
         /\ status = 500 => current_user(c) = AnonymousUser
         /\ db' = IF status = 200 THEN Served(c) ELSE Raised(c)
         /\ last' = Response("index", c, status, "",
                             IF status = 200 THEN "Rendered" ELSE "TypeError",
                             Ids(select_entries(current_user(c), IndexLimit)))
    /\ UNCHANGED <<users, entries, tags, through, session, pending>>

details(c) ==
    /\ pending[c] = NoForm
    /\ db' = Served(c)
    /\ last' = Response("details", c, 200, "", "Rendered", <<>>)
    /\ UNCHANGED <<users, entries, tags, through, session, pending>>

\* A URL that no route matches, such as /details/<id> (the only details
\* route is /details, without an id): routing raises NotFound and the 404
\* error handler answers with 404.html and the status 404. No view runs.
not_found(c, path) ==
    /\ pending[c] = NoForm
    /\ db' = Served(c)
    /\ last' = [Response("not_found", c, 404, "", "NotFound", <<>>) EXCEPT !.arg = path]
    /\ UNCHANGED <<users, entries, tags, through, session, pending>>

\* /entry and /entry/<int:entry_id>; entry_id is NoEntryId on /entry.
\* "if entry_id:" is false for the id 0 as well.
NoEntryId == -1

entry(c, method, entry_id, req) ==
    /\ pending[c] = NoForm
    /\ IF entry_id # NoEntryId /\ entry_id # 0
       THEN \* edit.html is rendered; nothing is read or written
            /\ entries' = entries
            /\ last' = Response("entry", c, 200, "", "EditForm", <<>>)
       ELSE IF method = "POST" /\ JournalEntryForm_validate(req)
            THEN LET r == JournalEntry_create(entries, current_user(c),
                                              JournalEntryForm_data(req)) IN
                 /\ r.ok => Len(entries) < MaxEntries
                 /\ entries' = r.table
                 /\ last' = IF r.ok THEN Response("entry", c, 302, "/", "Saved", <<>>)
                            ELSE Response("entry", c, 200, "", "FailedToSave", <<>>)
            ELSE /\ entries' = entries
                 /\ last' = Response("entry", c, 200, "",
                                IF method = "POST" THEN "ValidationError" ELSE "Form", <<>>)
    /\ db' = Served(c)
    /\ UNCHANGED <<users, tags, through, session, pending>>

\* @login_required; the view builds the query and renders the template but
\* returns nothing, which Flask answers with a server error
list(c) ==
    /\ pending[c] = NoForm
    /\ IF current_user(c) = AnonymousUser
       THEN /\ db' = Served(c)
            /\ last' = Response("list", c, 302, "/login", "Unauthorized", <<>>)
       ELSE /\ db' = Raised(c)
            /\ last' = Response("list", c, 500, "", "NoResponse",
                                Ids(select_entries(current_user(c), ListLimit)))
    /\ UNCHANGED <<users, entries, tags, through, session, pending>>

----------------------------------------------------------------------------
(* models.Tag and the through table of Tag.journal_entries *)

\* the UNIQUE index of Tag.tag
TagUnique(table, tag) == ~ \E i \in 1..Len(table) : table[i].tag = tag

\* an insert with no UNIQUE index on tag
create_tag_no_unique(table, tag) ==
    [ok |-> TRUE, error |-> "",
     table |-> Append(table, [id |-> Len(table) + 1, tag |-> tag])]

\* Tag.create_tag: IntegrityError becomes ValueError("Tag already exists")
create_tag(table, tag) ==
    IF tag # None /\ TagUnique(table, tag)
    THEN [ok |-> TRUE, error |-> "",
          table |-> Append(table, [id |-> Len(table) + 1, tag |-> tag])]
    ELSE [ok |-> FALSE, error |-> "ValueError", table |-> table]

\* the rows entry.tags.add(tag_list) inserts
LinkRows(entry_id, tag_ids) ==
    [i \in 1..Len(tag_ids) |-> [journalentry |-> entry_id, tag |-> tag_ids[i]]]

\* the through model's UNIQUE index on (journalentry, tag), over the table
\* with the new rows
LinkUnique(table) ==
    \A i, j \in 1..Len(table) : table[i] = table[j] => i = j

\* an insert with no UNIQUE index on the pair
tags_add_no_unique(table, entry_id, tag_ids) ==
    [ok |-> TRUE, error |-> "", table |-> table \o LinkRows(entry_id, tag_ids)]

\* entry.tags.add(tags): one multi-row INSERT into the through table; a pair
\* that is already there (or twice in the list) is an IntegrityError and no
\* row of the statement is kept
tags_add(table, entry_id, tag_ids) ==
    LET new == table \o LinkRows(entry_id, tag_ids) IN
    IF LinkUnique(new)
    THEN [ok |-> TRUE, error |-> "", table |-> new]
    ELSE [ok |-> FALSE, error |-> "IntegrityError", table |-> table]

----------------------------------------------------------------------------
(* The model layer called directly, as the model test cases do *)

ModelResponse(op, arg, r) ==
    [Response(op, "", 0, "", IF r.ok THEN "ok" ELSE r.error, <<>>) EXCEPT !.arg = arg]

Model_create_user(email, password) ==
    /\ \E salt \in Salts :
         LET r == create_user(users, email, password, salt) IN
         /\ users' = r.table
         /\ last' = ModelResponse("create_user", <<email>>, r)
    /\ UNCHANGED <<entries, tags, through, session, pending, db>>

Model_JournalEntry_create(user, data) ==
    /\ LET r == JournalEntry_create(entries, user, data) IN
       /\ r.ok => Len(entries) < MaxEntries
       /\ entries' = r.table
       /\ last' = ModelResponse("JournalEntry.create", <<data>>, r)
    /\ UNCHANGED <<users, tags, through, session, pending, db>>

Model_create_tag(tag) ==
    /\ LET r == create_tag(tags, tag) IN
       /\ tags' = r.table
       /\ last' = ModelResponse("create_tag", <<tag>>, r)
    /\ UNCHANGED <<users, entries, through, session, pending, db>>

Model_tags_add(entry_id, tag_ids) ==
    /\ LET r == tags_add(through, entry_id, tag_ids) IN
       /\ r.ok => Len(r.table) <= MaxLinks
       /\ through' = r.table
       /\ last' = ModelResponse("tags.add", <<entry_id>> \o tag_ids, r)
    /\ UNCHANGED <<users, entries, tags, session, pending, db>>

\* the loop of JournalEntry.create calls by which the view tests fill the
\* table before they request a page
create_entries(user, data) ==
    /\ Len(entries) < MaxRows
    /\ LET r == JournalEntry_create(entries, user, data) IN
       /\ entries' = r.table
       /\ last' = ModelResponse("JournalEntry.create", <<>>, r)
    /\ UNCHANGED <<users, tags, through, session, pending, db>>

----------------------------------------------------------------------------
(* Inputs *)

\* requests to /register: a GET, POSTs of each address with a good password,
\* and POSTs of a good address with a confirmation that differs, a short
\* password and none
RegisterRequests ==
    {[method |-> "GET", email |-> None, password |-> None, password2 |-> None]}
    \cup {[method |-> "POST", email |-> e, password |-> "password",
            password2 |-> "password"] : e \in Emails}
    \cup {[method |-> "POST", email |-> "a@example.com", password |-> pp[1],
            password2 |-> pp[2]] :
            pp \in {<<"password", "pass">>, <<"pass", "pass">>, <<"", "">>}}

\* requests to /login
LoginRequests ==
    {[method |-> "GET", email |-> None, password |-> None]}
    \cup {[method |-> "POST", email |-> e, password |-> p] : e \in Emails, p \in Passwords}

Req1 ==
    [title |-> "Day 1", date |-> "2024-01-01", time_spent |-> "2",
     what_i_learned |-> "tla", resources_to_remember |-> "docs"]

\* a later day, resources_to_remember left out of the request
Req2 ==
    [title |-> "Day 2", date |-> "2024-01-02", time_spent |-> "4",
     what_i_learned |-> "tlc", resources_to_remember |-> None]

NoReq ==
    [title |-> None, date |-> None, time_spent |-> None,
     what_i_learned |-> None, resources_to_remember |-> None]

\* form bodies of a POST to /entry: complete ones, and ones with a required
\* field absent, blank or malformed
EntryPosts ==
    {Req1, Req2,
     [Req1 EXCEPT !.title = None],
     [Req1 EXCEPT !.title = ""],
     [Req1 EXCEPT !.date = None],
     [Req1 EXCEPT !.date = "01/02/2024"],
     [Req1 EXCEPT !.time_spent = None],
     [Req1 EXCEPT !.what_i_learned = None]}

\* requests to /entry and /entry/<id>: GETs of the create and of an edit URL,
\* POSTs to the edit URLs of the rows and of one id past them, POSTs to the
\* create URL, and a POST to /entry/0
EntryRequests ==
    {[method |-> "GET", entry_id |-> id, form |-> NoReq] : id \in {NoEntryId, 1}}
    \cup {[method |-> "POST", entry_id |-> id, form |-> f] :
            id \in 1..(MaxEntries + 1), f \in {Req1, Req2}}
    \cup {[method |-> "POST", entry_id |-> NoEntryId, form |-> f] : f \in EntryPosts}
    \cup {[method |-> "POST", entry_id |-> 0, form |-> Req1]}

\* ids requested as /details/<id>: the first row's, and one no row has
DetailIds == {1, MaxEntries + 1}

\* keyword arguments of a direct JournalEntry.create
Data1 == JournalEntryForm_data(Req1)

EntryData ==
    {Data1,
     [Data1 EXCEPT !.title = None],
     [Data1 EXCEPT !.date = NoDate],
     [Data1 EXCEPT !.time_spent = None],
     [Data1 EXCEPT !.what_i_learned = None],
     [Data1 EXCEPT !.resources_to_remember = None]}

\* arguments of a direct User.create_user
DirectEmails == {"a@example.com", "b@example.com", None}
DirectPasswords == {"password"}

TagNames == {"python", "flask", None}

\* lists of one or two Tag instances
TagLists ==
    {<<t>> : t \in 1..Len(tags)} \cup {<<t, u>> : t \in 1..Len(tags), u \in 1..Len(tags)}

----------------------------------------------------------------------------
(* The web application: requests of the clients *)

Next ==
    \/ \E c \in Clients, q \in RegisterRequests :
         register(c, q.method, q.email, q.password, q.password2)
    \/ \E c \in Clients : register_create_user(c)
    \/ \E c \in Clients, q \in LoginRequests : login(c, q.method, q.email, q.password)
    \/ \E c \in Clients : logout(c)
    \/ \E c \in Clients : index(c)
    \/ \E c \in Clients : details(c)
    \/ \E c \in Clients, q \in EntryRequests : entry(c, q.method, q.entry_id, q.form)
    \/ \E c \in Clients : list(c)
    \/ \E c \in Clients, id \in DetailIds : not_found(c, <<"details", id>>)

Spec == Init /\ [][Next]_vars

(* A table filled past the limits of the two queries, as                   *)
(* test_more_entries_button fills it, and the two views that select        *)

Data2 == JournalEntryForm_data(Req2)

\* the users UserModelTestCase.create_users makes, in the order of its loop
FixtureEmails == <<"a@example.com", "b@example.com">>

\* the rows the loop may insert at position p: the first row is any user's,
\* the others the first user's; the first row, the row just past the limit
\* of index and the rows past the limit of list are of either date, the
\* others of the earlier one
FixtureRows(p) ==
    {[user |-> u, data |-> d] :
        u \in IF p = 1 THEN 1..Len(users) ELSE {1} \cap (1..Len(users)),
        d \in IF p = 1 \/ p = IndexLimit + 1 \/ p > ListLimit
              THEN {Data1, Data2} ELSE {Data1}}

\* the client logs in as the first user, as the view tests do (USER_DATA)
NextLimit ==
    \/ /\ Len(users) < Len(FixtureEmails)
       /\ \E p \in DirectPasswords : Model_create_user(FixtureEmails[Len(users) + 1], p)
    \/ \E p \in DirectPasswords : login("c1", "POST", FixtureEmails[1], p)
    \/ \E row \in FixtureRows(Len(entries) + 1) : create_entries(row.user, row.data)
    \/ index("c1")
    \/ list("c1")

SpecLimit == Init /\ [][NextLimit]_vars

(* The application together with direct calls of JournalEntry.create, as   *)
(* the test cases and the shell make them, for the users that registered   *)

NextStore ==
    \/ Next
    \/ \E u \in (1..Len(users)) \cup {NoUser}, data \in EntryData :
         Model_JournalEntry_create(u, data)

SpecStore == Init /\ [][NextStore]_vars

(* The model layer alone, called directly as the model test cases do; no   *)
(* request handler reads or writes the tag models                          *)

NextModels ==
    \/ \E e \in DirectEmails, p \in DirectPasswords : Model_create_user(e, p)
    \/ \E u \in (1..Len(users)) \cup {NoUser}, data \in EntryData :
         Model_JournalEntry_create(u, data)
    \/ \E t \in TagNames : Model_create_tag(t)
    \/ \E e \in 1..Len(entries), ts \in TagLists : Model_tags_add(e, ts)

SpecModels == Init /\ [][NextModels]_vars

----------------------------------------------------------------------------
(* Properties *)

HasEmail(table, email) == \E i \in 1..Len(table) : table[i].email = email

\* a step in which the request of some client was answered
Answered(op) == last'.op = op /\ last'.client \in Clients

\* C1: no two User rows carry the same email; a registration that reaches
\* create_user succeeds (one row with its email is added, redirect to index)
\* exactly when no row has the email yet, and otherwise fails with ValueError
\* and leaves the table as it was; a POST to /register gets past the form
\* only for an email no row has, and one the form rejects leaves the table as
\* it was.
UsersUnique ==
    \A i, j \in 1..Len(users) : users[i].email = users[j].email => i = j

RegistrationOutcome ==
    /\ \A c \in Clients :
         (pending[c] # NoForm /\ pending'[c] = NoForm) =>
           LET e == pending[c].email IN
           IF HasEmail(users, e)
           THEN users' = users /\ last'.outcome = "ValueError"
           ELSE /\ Len(users') = Len(users) + 1
                /\ SubSeq(users', 1, Len(users)) = users
                /\ users'[Len(users')].email = e
                /\ last'.status = 302 /\ last'.location = "/"
    /\ \A c \in Clients :
         (pending[c] = NoForm /\ pending'[c] # NoForm) =>
           (~ HasEmail(users, pending'[c].email) /\ users' = users)
    /\ (Answered("register") /\ last'.outcome = "ValidationError") => users' = users

C1_OneRegistrationPerEmail == []UsersUnique /\ [][RegistrationOutcome]_vars

\* two registrations of one email were both past the form's check: the second
\* insert failed, one row holds the email
C1_Witness ==
    /\ last.op = "register" /\ last.outcome = "ValueError"
    /\ Len(users) = 1

\* C2: the entries index and the list view select for a caller are all owned
\* by the caller, and an anonymous caller is given none.
C2_OnlyOwnEntries ==
    (last.op \in {"index", "list"} /\ last.client \in Clients) =>
      /\ \A i \in 1..Len(last.entries) :
           entries[last.entries[i]].user = current_user(last.client)
      /\ current_user(last.client) = AnonymousUser => last.entries = <<>>

\* a caller was shown entries while another user owned entries as well
C2_Witness ==
    /\ last.op = "index" /\ last.entries # <<>>
    /\ \E i \in 1..Len(entries) : entries[i].user # current_user(last.client)

\* C3: a POST to /login logs the client in as u and redirects to index exactly
\* when a User row u has the submitted email and the submitted password is the
\* one u's stored hash was made from; any other attempt is answered with the
\* login page, the client's session is what it was, and no attempt changes
\* the User table.
Verifies(pw_hash, password) == pw_hash.digest[3] = password

LoginOutcome ==
    Answered("login") =>
    \A q \in LoginRequests :
      LET c == last'.client IN
      (q.method = "POST" /\ login(c, q.method, q.email, q.password)) =>
        LET match == {i \in 1..Len(users) :
                        users[i].email = q.email /\ Verifies(users[i].password, q.password)}
        IN /\ users' = users
           /\ IF match # {}
              THEN /\ session'[c] \in match
                   /\ last'.status = 302 /\ last'.location = "/"
              ELSE /\ session' = session
                   /\ last'.status = 200
                   /\ last'.outcome = "DoesNotExist" => ~ HasEmail(users, q.email)
                   /\ last'.outcome = "PasswordMismatch" => HasEmail(users, q.email)

C3_LoginIffCredentials == [][LoginOutcome]_vars

\* a client that is logged in was refused with a wrong password and is still
\* logged in as before
C3_Witness ==
    /\ last.op = "login" /\ last.outcome = "PasswordMismatch"
    /\ session[last.client] # AnonymousUser

\* C4: a POST of valid fields to /entry/<id> for an existing entry is refused
\* (403, entry unchanged) when the caller is not the owner, and overwrites the
\* entry's fields, keeping id and owner, when the caller is the owner.
EditOutcome ==
    Answered("entry") =>
    \A q \in EntryRequests :
      LET c == last'.client IN
      (/\ q.method = "POST" /\ q.entry_id \in 1..Len(entries)
       /\ JournalEntryForm_validate(q.form)
       /\ entry(c, q.method, q.entry_id, q.form)) =>
        LET row == entries[q.entry_id]
            data == JournalEntryForm_data(q.form)
        IN IF row.user # current_user(c)
           THEN last'.status = 403 /\ entries' = entries
           ELSE entries' = [entries EXCEPT ![q.entry_id] =
                  [id |-> row.id, user |-> row.user, title |-> data.title,
                   date |-> data.date, time_spent |-> data.time_spent,
                   what_i_learned |-> data.what_i_learned,
                   resources_to_remember |-> data.resources_to_remember]]

C4_EditForbiddenOrOverwrites == [][EditOutcome]_vars

\* C5: no two Tag rows carry the same name, and create_tag of a name that a
\* row already has fails with ValueError and leaves the table as it was.
HasTag(table, tag) == \E i \in 1..Len(table) : table[i].tag = tag

TagsUnique ==
    \A i, j \in 1..Len(tags) : tags[i].tag = tags[j].tag => i = j

CreateTagOutcome ==
    last'.op = "create_tag" =>
      LET t == last'.arg[1] IN
      IF HasTag(tags, t)
      THEN tags' = tags /\ last'.outcome = "ValueError"
      ELSE t # None => (tags' = Append(tags, [id |-> Len(tags) + 1, tag |-> t])
                        /\ last'.outcome = "ok")

C5_TagNamesUnique == []TagsUnique /\ [][CreateTagOutcome]_vars

\* create_tag was called with the name of a tag that exists
C5_Witness ==
    /\ last.op = "create_tag" /\ last.outcome = "ValueError"
    /\ HasTag(tags, last.arg[1])

\* C6: entry.tags.add(tag) for a tag the entry carries already succeeds,
\* leaves one row for the pair and changes no other row.
Links(table, row) == Cardinality({i \in 1..Len(table) : table[i] = row})

SecondAddOutcome ==
    (last'.op = "tags.add" /\ Len(last'.arg) = 2) =>
      LET row == [journalentry |-> last'.arg[1], tag |-> last'.arg[2]] IN
      Links(through, row) = 1 =>
        /\ last'.outcome = "ok"
        /\ Links(through', row) = 1
        /\ through' = through

C6_SecondAddIsNoOp == [][SecondAddOutcome]_vars

\* C6 as amended: no two rows of the join table hold the same (entry, tag)
\* pair, and entry.tags.add(tag) for a tag the entry carries already fails
\* with IntegrityError and leaves every row of the join table as it was.
LinksUnique ==
    \A i, j \in 1..Len(through) : through[i] = through[j] => i = j

SecondAddRefused ==
    (last'.op = "tags.add" /\ Len(last'.arg) = 2) =>
      LET row == [journalentry |-> last'.arg[1], tag |-> last'.arg[2]] IN
      IF Links(through, row) >= 1
      THEN last'.outcome = "IntegrityError" /\ through' = through
      ELSE last'.outcome = "ok" /\ through' = Append(through, row)

C6_SecondAddRefused == []LinksUnique /\ [][SecondAddRefused]_vars

\* a tag was added to an entry that carries it, in a join table of two rows
C6_Witness ==
    /\ last.op = "tags.add" /\ last.outcome = "IntegrityError"
    /\ Len(last.arg) = 2 /\ Len(through) = 2
    /\ Links(through, [journalentry |-> last.arg[1], tag |-> last.arg[2]]) = 1

MissingRequired(f) ==
    f.title = None \/ f.date = None \/ f.time_spent = None \/ f.what_i_learned = None

\* (for each request q that the step may have answered: either the answer is
\* the stated one, or the step is not the answer to q)
CreateRequestOutcome ==
    Answered("entry") =>
    \A q \in EntryRequests :
      LET c == last'.client IN
      (q.method = "POST" /\ q.entry_id = NoEntryId) =>
        /\ MissingRequired(q.form) =>
             \/ entries' = entries /\ last'.outcome = "ValidationError"
             \/ ~ entry(c, q.method, q.entry_id, q.form)
        /\ (q.form = Req2 /\ current_user(c) # AnonymousUser) =>
             \/ /\ Len(entries') = Len(entries) + 1
                /\ entries'[Len(entries')].title = Req2.title
                /\ entries'[Len(entries')].resources_to_remember = ""
                /\ last'.status = 302
             \/ ~ entry(c, q.method, q.entry_id, q.form)

StoreCreateOutcome ==
    last'.op = "JournalEntry.create" =>
      LET data == last'.arg[1] IN
      (data.title = None \/ data.date = NoDate \/ data.time_spent = None
         \/ data.what_i_learned = None) =>
        entries' = entries /\ last'.outcome = "IntegrityError"

C8_RequiredFields == [][CreateRequestOutcome /\ StoreCreateOutcome]_vars

\* a direct JournalEntry.create without a title was refused, in a database
\* that holds an entry posted without resources_to_remember
C8_Witness ==
    /\ last.op = "JournalEntry.create" /\ last.outcome = "IntegrityError"
    /\ last.arg[1].title = None
    /\ \E i \in 1..Len(entries) : entries[i].resources_to_remember = ""

\* C9: a valid POST to /entry by a logged-in user u appends one row, owned by
\* u and holding the submitted fields, redirects to index, and changes no
\* other entry and no user.  (For each request q that the step may have
\* answered: either the outcome is the stated one, or the step is not the
\* answer to q.)
ValidPost(f) ==
    /\ ~ MissingRequired(f)
    /\ f.title # "" /\ f.time_spent # "" /\ f.what_i_learned # ""
    /\ f.date \in {"2024-01-01", "2024-01-02"}

SubmittedDate(text) ==
    IF text = "2024-01-01" THEN <<2024, 1, 1>> ELSE <<2024, 1, 2>>

CreateEntryOutcome ==
    Answered("entry") =>
    \A q \in EntryRequests :
      LET c == last'.client IN
      (/\ q.method = "POST" /\ q.entry_id = NoEntryId /\ ValidPost(q.form)
       /\ current_user(c) # AnonymousUser) =>
        \/ /\ Len(entries') = Len(entries) + 1
           /\ SubSeq(entries', 1, Len(entries)) = entries
           /\ LET row == entries'[Len(entries')] IN
              /\ row.id = Len(entries') /\ row.user = session[c]
              /\ row.title = q.form.title
              /\ row.date = SubmittedDate(q.form.date)
              /\ row.time_spent = q.form.time_spent
              /\ row.what_i_learned = q.form.what_i_learned
              /\ row.resources_to_remember =
                   (IF q.form.resources_to_remember = None THEN ""
                    ELSE q.form.resources_to_remember)
           /\ last'.status = 302 /\ last'.location = "/"
           /\ users' = users /\ session' = session
        \/ ~ entry(c, q.method, q.entry_id, q.form)

C9_CreateAddsOneOwnedRow == [][CreateEntryOutcome]_vars

\* two users have each posted an entry
C9_Witness ==
    /\ last.op = "entry" /\ last.status = 302
    /\ Len(entries) = 2 /\ entries[1].user # entries[2].user

\* C10: GET /entries by a logged-in user is answered 200 with all of the
\* user's entries.
C10_ListViewShowsEntries ==
    (last.op = "list" /\ current_user(last.client) # AnonymousUser) =>
      /\ last.status = 200
      /\ last.entries = Ids(order_by(where_user(entries, current_user(last.client))))

\* C11: GET /details/<id> for an id no JournalEntry row has is answered with
\* a redirect (never with the status 404) that reports not-found, and no
\* table and no session changes.
C11_DetailsNotFoundRedirects ==
    [][(/\ Answered("not_found") /\ last'.arg[1] = "details"
        /\ last'.arg[2] \notin 1..Len(entries)) =>
         /\ last'.status = 302 /\ last'.status # 404
         /\ last'.outcome = "NotFound"
         /\ UNCHANGED <<users, entries, tags, through, session>>]_vars

\* C12: the home page selects at most 5 of the caller's entries, and when the
\* caller owns more than 5 it selects 5 of them, none dated earlier than an
\* entry of the caller that it leaves out; the list view selects at most 100
\* of the caller's entries, by the same rule when the caller owns more.
Owned(u) == {i \in 1..Len(entries) : entries[i].user = u}

Selected == {last.entries[k] : k \in 1..Len(last.entries)}

MostRecent(u, n) ==
    /\ Len(last.entries) <= n
    /\ Cardinality(Selected) = Len(last.entries)
    /\ Selected \subseteq Owned(u)
    /\ Cardinality(Owned(u)) > n =>
         /\ Len(last.entries) = n
         /\ \A i \in Selected, j \in Owned(u) \ Selected :
              DateKey(entries[i].date) >= DateKey(entries[j].date)
    /\ Cardinality(Owned(u)) <= n => Selected = Owned(u)

C12_SelectionLimits ==
    /\ last.op = "index" => MostRecent(current_user(last.client), 5)
    /\ (last.op = "list" /\ current_user(last.client) # AnonymousUser) =>
         MostRecent(current_user(last.client), 100)

\* the home page showed 5 entries to a user who owns more than 5, the newest
\* of them, inserted last, first, in a table that holds another user's entry
C12_Witness ==
    /\ last.op = "index" /\ Len(last.entries) = 5
    /\ Cardinality(Owned(current_user(last.client))) > 5
    /\ last.entries[1] = Len(entries)
    /\ \E i \in 1..Len(entries) : entries[i].user # current_user(last.client)

\* C13: every JournalEntry row's user is the id of a User row; no step
\* removes a row or a user or changes a row's user; and a valid POST to the
\* create URL by a client that is not logged in adds no row and is answered
\* with the failed-to-save page.
EntriesHaveOwner ==
    \A i \in 1..Len(entries) :
      /\ entries[i].user \in 1..Len(users)
      /\ users[entries[i].user].id = entries[i].user

OwnerKept ==
    /\ Len(entries') >= Len(entries)
    /\ SubSeq(users', 1, Len(users)) = users
    /\ \A i \in 1..Len(entries) : entries'[i].user = entries[i].user

AnonymousCreateOutcome ==
    Answered("entry") =>
    \A q \in EntryRequests :
      LET c == last'.client IN
      (/\ q.method = "POST" /\ q.entry_id \in {NoEntryId, 0} /\ ValidPost(q.form)
       /\ current_user(c) = AnonymousUser) =>
        \/ /\ entries' = entries
           /\ last'.outcome = "FailedToSave" /\ last'.status = 200
        \/ ~ entry(c, q.method, q.entry_id, q.form)

C13_EntriesOwnedByExistingUser ==
    []EntriesHaveOwner /\ [][OwnerKept /\ AnonymousCreateOutcome]_vars

\* a client that is not logged in posted a valid entry to a database that
\* holds a user's entry, and was told it failed to save
C13_Witness ==
    /\ last.op = "entry" /\ last.outcome = "FailedToSave"
    /\ current_user(last.client) = AnonymousUser
    /\ Len(entries) >= 1

\* C14: whenever no request of a client is being served, the connection that
\* before_request opened for it is closed.
C14_ConnectionClosedAfterRequest ==
    \A c \in Clients : pending[c] = NoForm => db[c] = "closed"

====
